---- MODULE Spec2Model ----
(***************************************************************************)
(* PFM10: the audio-block Fifo between the render thread and the editor,   *)
(* the editor's timer tick that drains it, and the UpdateThread it wakes.  *)
(*                                                                         *)
(* Threads: the render thread (processBlock -> Fifo::push), the message    *)
(* thread (prepareToPlay, timerCallback -> Fifo::pull, the editor's        *)
(* destructor) and the update thread (UpdateThread::run -> update()).      *)
(*                                                                         *)
(* juce::AbstractFifo keeps two atomic indices, validStart (stored only by *)
(* the reader) and validEnd (stored only by the writer).  A thread's load  *)
(* of the index it alone stores is folded into the step that loads the     *)
(* other thread's index: no other thread can change it in between.         *)
(***************************************************************************)
EXTENDS Integers, Sequences, FiniteSets, TLC

\* ------------------------------------------------------------------ bounds
\* Block contents are told apart by a serial number 1..idCycle, reused
\* cyclically: idCycle is NumIds, or SmallIds in the specifications that
\* follow more threads or operations.
NumIds == 7
SmallIds == 2

\* ------------------------------------------------------- program constants
\* Fifo<juce::AudioBuffer<float>, 6>: the AbstractFifo's bufferSize.
Size == 6
\* NEGATIVE_INFINITY -66.f and MAX_DECIBELS 12.f; levels are in thousandths
\* of a dB, so that a decay step of one timer interval is a whole number.
NEGATIVE_INFINITY == -66000
MAX_DECIBELS == 12000

\* A float that is not finite (NaN or an infinity).
NonFinite == 2 ^ 30
IsFinite(x) == x # NonFinite

Slots == 0 .. (Size - 1)
\* Channel counts the bus layouts allow (mono, stereo); frame counts of a block.
Chans == {1, 2}
Frames == {1, 2}

\* An AudioBuffer: its shape and its samples.  data = 0 is a cleared buffer,
\* data = k > 0 the samples of the k-th block the Fifo accepted (a block the
\* Fifo refuses is followed by one with the same samples), data = -1 samples
\* that were never initialised.
MakeBlock(d, c, f) == [data |-> d, ch |-> c, fr |-> f]
NoBlock == MakeBlock(-1, 0, 0)
\* A default-constructed AudioBuffer: no channels, no samples.
EmptyBuffer == MakeBlock(0, 0, 0)

Min(a, b) == IF a < b THEN a ELSE b
Max(a, b) == IF a > b THEN a ELSE b

VARIABLES
    validStart,        \* AbstractFifo::validStart
    validEnd,          \* AbstractFifo::validEnd
    buffers,           \* Fifo::buffers
    numCh,             \* getTotalNumOutputChannels()
    ppc,               \* render thread: position in processBlock / push
    pBlock,            \* the buffer processBlock was called with
    pStart,            \* scopedWrite.startIndex1
    pBS,               \* scopedWrite.blockSize1
    nextId,            \* serial number of the next rendered block
    idCycle,           \* the host's blocks repeat with this period
    cpc,               \* message thread: position in timerCallback / pull
    cStart,            \* scopedRead.startIndex1
    cBS,               \* scopedRead.blockSize1
    editorAudioBuffer, \* PFM10AudioProcessorEditor::editorAudioBuffer
    dbLeftChannel,
    dbRightChannel,
    dbPeakMono,
    magLeft,           \* timerCallback's local magLeftChannel
    magRight,          \* timerCallback's local magRightChannel
    upc,               \* update thread: position in UpdateThread::run
    event,             \* juce::Thread's WaitableEvent (auto-reset): signalled
    shouldExit,        \* juce::Thread::threadShouldExit()
    editorAlive,       \* the editor has not been destroyed
    \* ---- history variables (read by no action's guard or effect) ----
    prepShape,         \* <<channels, frames>> of the last prepare(), or <<>>
    ghost,             \* accepted, not yet pulled blocks, oldest first
    cRace,             \* outcome of a pull's copy that a prepare() raced
    lastPop,           \* ghost entry of the last successful pull
    tickPulled,        \* successful pulls of this tick (0, 1, 2 = two or more)
    cCredit,           \* getNumAvailableForReading() minus the pulls since
    pCredit,           \* getAvailableSpace() minus the pushes since
    cFailed,           \* a pull of the running tick has returned false
    c1,                \* push results since the Fifo was empty, no pull between
    pSteps,            \* own steps of the running push()
    cSteps,            \* own steps of the running pull()
    evtDrained,        \* the pending notify() came from a tick that drained
    updFirst,          \* update() is in its first execution
    updDrained,        \* pulledSince, as it was when the running update() started
    updWoken,          \* the running update() was woken by a draining tick
    pulledSince,       \* a tick pulled a block since update() last started
    \* ---- MacroMeter::averager (Averager<float>) ----
    elements,          \* Averager::elements
    writeIndex,        \* Averager::writeIndex
    sum,               \* Averager::sum
    avg,               \* Averager::avg
    \* ---- Meter::decayingValueHolder (DecayingValueHolder) ----
    holdForInf,
    heldValue,
    holdTimeMs,
    sincePeak,         \* getNow() - peakTime, as a class of ElapsedClasses
    decayRatePerFrame,
    \* ---- history variables of the trackers ----
    avgOp,             \* the Averager's last operation and its arguments
    fed,               \* samples add()ed since the last resize, newest last
    avgFault,          \* add() indexed outside elements / divided by zero
    intervalChanges,   \* changes of the averagerIntervals property so far
    dvhOp,             \* the DecayingValueHolder's last operation
    heldMax,           \* max of heldValue's start and the samples fed since
    \* ---- locals of update() and of the message thread's callbacks ----
    uLeft,             \* update(): the value loaded from dbLeftChannel
    uRight,            \* update(): the value loaded from dbRightChannel
    uMono,             \* update(): the value loaded from dbPeakMono
    mArg,              \* argument of the listener call in progress
    stopAt,            \* history: where the update thread was at stopThread
    dHeld,             \* DecayingValueHolder::timerCallback: heldValue as loaded
    writeIndexTemp,    \* Averager::add: writeIndexTemp
    sumTemp,           \* Averager::add: sumTemp
    dvhTicks,          \* history: timer callbacks of the holder counted so far
    \* ---- the value tree's hold properties and the TextMeter's ValueHolder ----
    peakHoldEnabled,   \* valueTree[IDs::peakHoldEnabled]
    peakHoldInf,       \* valueTree[IDs::peakHoldInf]
    peakHoldDuration,  \* valueTree[IDs::peakHoldDuration]
    holdEnabled,       \* ValueHolder::holdEnabled
    textHoldForInf,    \* ValueHolder::holdForInf
    durationToHoldForMs \* ValueHolder::durationToHoldForMs

avgVars == << elements, writeIndex, sum, avg, avgOp, fed, avgFault, intervalChanges >>
dvhVars == << holdForInf, heldValue, holdTimeMs, sincePeak, decayRatePerFrame,
              dvhOp, heldMax >>
raceVars == << dHeld, writeIndexTemp, sumTemp, dvhTicks >>
menuVars == << peakHoldEnabled, peakHoldInf, peakHoldDuration, holdEnabled,
               textHoldForInf, durationToHoldForMs >>
sideVars == << raceVars, menuVars >>
callVars == << uLeft, uRight, uMono, mArg, stopAt, sideVars >>
trkVars == << avgVars, dvhVars, callVars >>

vars == << validStart, validEnd, buffers, numCh, ppc, pBlock, pStart, pBS,
           nextId, idCycle, cpc, cStart, cBS, editorAudioBuffer, dbLeftChannel,
           dbRightChannel, dbPeakMono, magLeft, magRight, upc, event, shouldExit,
           editorAlive, prepShape, ghost, cRace, lastPop, tickPulled,
           cCredit, pCredit, cFailed, c1, pSteps, cSteps, evtDrained, updFirst,
           updDrained, updWoken, pulledSince, trkVars >>

\* Everything but the trackers.
baseVars == << validStart, validEnd, buffers, numCh, ppc, pBlock, pStart, pBS,
               nextId, idCycle, cpc, cStart, cBS, editorAudioBuffer,
               dbLeftChannel, dbRightChannel, dbPeakMono, magLeft, magRight, upc,
               event, shouldExit, editorAlive, prepShape, ghost, cRace, lastPop,
               tickPulled, cCredit, pCredit, cFailed, c1, pSteps, cSteps,
               evtDrained, updFirst, updDrained, updWoken, pulledSince >>

fifoVars == << validStart, validEnd, buffers >>
prodVars == << ppc, pBlock, pStart, pBS, nextId, idCycle >>
consVars == << cpc, cStart, cBS, editorAudioBuffer >>
dbVars == << dbLeftChannel, dbRightChannel, dbPeakMono, magLeft, magRight >>
updVars == << upc, event, shouldExit, editorAlive >>
updHist == << evtDrained, updFirst, updDrained, updWoken, pulledSince >>
tickHist == << lastPop, tickPulled, cCredit, cFailed >>

\* ------------------------------------------------- juce::AbstractFifo
\* getNumReady(): ve >= vs ? (ve - vs) : (bufferSize - (vs - ve))
NumReady(vs, ve) == IF ve >= vs THEN ve - vs ELSE Size - (vs - ve)

\* getFreeSpace(): bufferSize - getNumReady() - 1
FreeSpaceNoGap(vs, ve) == Size - NumReady(vs, ve)
FreeSpace(vs, ve) == Size - NumReady(vs, ve) - 1

\* prepareToWrite: numToWrite = jmin (numToWrite, freeSpace - 1), one index
\* always stays unused so that validStart = validEnd means "empty".
WriteLimitNoGap(vs, ve) == IF ve >= vs THEN Size - (ve - vs) ELSE vs - ve
WriteLimit(vs, ve) == (IF ve >= vs THEN Size - (ve - vs) ELSE vs - ve) - 1

\* prepareToWrite's blockSize1 and startIndex1 for a request of numToWrite.
WriteBlockSize1(vs, ve, numToWrite) ==
    LET n == Min(numToWrite, WriteLimit(vs, ve))
    IN  IF n <= 0 THEN 0 ELSE Min(Size - ve, n)
WriteStartIndex1AtStart(vs, ve, numToWrite) ==
    IF Min(numToWrite, WriteLimit(vs, ve)) <= 0 THEN 0 ELSE vs
WriteStartIndex1(vs, ve, numToWrite) ==
    IF Min(numToWrite, WriteLimit(vs, ve)) <= 0 THEN 0 ELSE ve

\* prepareToRead's blockSize1 and startIndex1 for a request of numWanted.
ReadBlockSize1(vs, ve, numWanted) ==
    LET n == Min(numWanted, NumReady(vs, ve))
    IN  IF n <= 0 THEN 0 ELSE Min(Size - vs, n)
ReadStartIndex1Zero(vs, ve, numWanted) == 0
ReadStartIndex1(vs, ve, numWanted) ==
    IF Min(numWanted, NumReady(vs, ve)) <= 0 THEN 0 ELSE vs

\* finishedWrite / finishedRead: advance the index by n, wrapping at bufferSize.
FinishedWriteAtLeastOne(ve, n) ==
    IF ve + Max(n, 1) >= Size THEN ve + Max(n, 1) - Size ELSE ve + Max(n, 1)
FinishedWrite(ve, n) == IF ve + n >= Size THEN ve + n - Size ELSE ve + n
FinishedReadStuck(vs, n) == vs
FinishedRead(vs, n) == IF vs + n >= Size THEN vs + n - Size ELSE vs + n

\* ------------------------------------------------- juce::AudioBuffer
\* setSize (numChannels, numSamples, false, true, true) followed by clear().
Cleared(c, f) == MakeBlock(0, c, f)

\* AudioBuffer::operator=: setSize (other's channels, other's samples), then
\* the samples are copied: the target takes the source's shape and contents.
AssignBuffer(target, other) == MakeBlock(other.data, other.ch, other.fr)

\* Peak magnitudes, in quarters of full scale, of the samples numbered d.
\* The samples numbered HotData hold an infinity in every channel (a
\* plug-in upstream divided by zero): |+-inf| is the peak.
Mags == {0, 2, 4}
HotData == 99
MagOf(d, channel) ==
    IF d = HotData THEN NonFinite
    ELSE IF channel = 0 THEN 2 * (d % 3) ELSE 2 * ((d \div 3) % 3)

\* getMagnitude (channel, 0, getNumSamples()): 0 for a cleared buffer; a
\* channel the buffer does not have is read out of bounds, and samples that
\* were never initialised are indeterminate (any value).
GetMagnitude(b, channel) ==
    IF b.data = 0 THEN {0}
    ELSE IF b.data > 0 /\ channel < b.ch THEN {MagOf(b.data, channel)}
    ELSE Mags

\* 20 * log10 (gain), gain in quarters of full scale, in thousandths of a dB.
Log20(gain) ==
    CASE gain = 1 -> -12041
      [] gain = 2 -> -6021
      [] gain = 3 -> -2499
      [] gain = 20 -> 13979
      [] gain = NonFinite -> NonFinite
      [] OTHER    -> 0

\* juce::Decibels::gainToDecibels (gain, minusInfinityDb): gain > 0 ?
\* jmax (minusInfinityDb, log10 (gain) * 20) : minusInfinityDb.  Nothing
\* tests for an infinity: it is > 0 and its logarithm is the maximum.
GainToDecibels(gain, minusInfinityDb) ==
    IF gain > 0 THEN Max(minusInfinityDb, Log20(gain)) ELSE minusInfinityDb

\* ------------------------------------------------- history helpers
GhostEntry(b) == [blk |-> b, prep |-> FALSE]
NoEntry == [blk |-> NoBlock, prep |-> FALSE]
C1Off == [phase |-> "off", res |-> << >>, after |-> "none"]
\* A push() is called.
C1Push(c) == IF c.phase = "pull" THEN C1Off ELSE c
\* A push() returns r.
C1PushDone(c, r) ==
    IF c.phase = "run" /\ Len(c.res) <= Size THEN [c EXCEPT !.res = Append(@, r)]
    ELSE IF c.phase = "after"
         THEN [c EXCEPT !.phase = "done", !.after = IF r THEN "true" ELSE "false"]
    ELSE c
\* A pull() is called while the producer is idle (or not).
C1Pull(c, producerIdle) ==
    IF c.phase = "run" /\ producerIdle /\ Len(c.res) > 0 /\ ~c.res[Len(c.res)]
    THEN [c EXCEPT !.phase = "pull"]
    ELSE IF c.phase \in {"done", "off"} THEN c ELSE C1Off
\* A pull() returns ok.
C1PullDone(c, ok) ==
    IF c.phase = "pull" THEN (IF ok THEN [c EXCEPT !.phase = "after"] ELSE C1Off) ELSE c
Step(n) == Min(n + 1, 9)
NextId(k) == IF k >= idCycle THEN 1 ELSE k + 1
\* The host may render the first block of a cycle with fewer frames.
ShortBlock(k) == k = 1

\* ------------------------------------------------- Fifo::prepare
\* prepareToPlay (sampleRate, samplesPerBlock): audioBufferFifo.prepare
\* (samplesPerBlock, getTotalNumOutputChannels()).  The host calls it while
\* it is not rendering; the editor's timer may be running.  A pull() whose
\* copy is in progress races the resize: it delivers the old block, the
\* cleared one, or the old samples in the new shape.
\* prepare() resizes and clears the buffers; the AbstractFifo is not touched
\* (no reset()): each index stays what it is.
PreparedIndexReset(index) == 0
PreparedIndex(index) == index

PrepareToPlay(samplesPerBlock, channels) ==
    /\ ppc = "idle"
    /\ numCh' = channels
    /\ validStart' = PreparedIndex(validStart)
    /\ validEnd' = PreparedIndex(validEnd)
    /\ buffers' = [i \in Slots |-> Cleared(channels, samplesPerBlock)]
    /\ prepShape' = << channels, samplesPerBlock >>
    /\ ghost' = [i \in DOMAIN ghost |->
                    [blk |-> Cleared(channels, samplesPerBlock), prep |-> TRUE]]
    /\ IF cpc = "c_copy"
       THEN LET old == IF cRace = NoBlock THEN buffers[cStart] ELSE cRace
            IN  cRace' \in { old, Cleared(channels, samplesPerBlock),
                             MakeBlock(old.data, channels, samplesPerBlock) }
       ELSE cRace' = cRace
    /\ UNCHANGED << trkVars, prodVars, consVars, dbVars, updVars,
                    updHist, tickHist, pCredit, c1, pSteps, cSteps >>

\* The host's first prepareToPlay, before it renders anything.
FirstPrepare(samplesPerBlock, channels) ==
    /\ prepShape = << >>
    /\ PrepareToPlay(samplesPerBlock, channels)

\* ------------------------------------------------- Fifo::push
\* Where push() goes after abstractFifo.write(1): the copy, or straight to
\* the return (the ScopedWrite's destructor runs finishedWrite either way).
PushNextWait(blockSize1) == IF blockSize1 > 0 THEN "p_copy" ELSE "p_wait"
PushNext(blockSize1) == IF blockSize1 > 0 THEN "p_copy" ELSE "p_fin"

\* processBlock (buffer): audioBufferFifo.push (buffer); push() begins with
\* abstractFifo.write (1), i.e. prepareToWrite (1, ...).
PushBlock(d) ==
    /\ ppc = "idle"
    /\ prepShape # << >>
    /\ \E fr \in { f \in Frames : f = prepShape[2]
                                   \/ (f < prepShape[2] /\ ShortBlock(nextId)) } :
          pBlock' = MakeBlock(d, numCh, fr)
    /\ pBS' = WriteBlockSize1(validStart, validEnd, 1)
    /\ pStart' = WriteStartIndex1(validStart, validEnd, 1)
    /\ ppc' = PushNext(pBS')
    /\ pSteps' = Step(pSteps)
    /\ c1' = C1Push(c1)
    /\ UNCHANGED << trkVars, fifoVars, numCh, nextId, idCycle, consVars, dbVars, updVars, updHist,
                    tickHist, prepShape, ghost, cRace, cCredit, pCredit, cSteps >>

\* The host's next block.
PushPrepare == PushBlock(nextId)

\* buffers[scopedWrite.startIndex1] = t
PushCopy ==
    /\ ppc = "p_copy"
    /\ buffers' = [buffers EXCEPT ![pStart] = AssignBuffer(@, pBlock)]
    /\ ppc' = "p_fin"
    /\ pSteps' = Step(pSteps)
    /\ UNCHANGED << trkVars, validStart, validEnd, numCh, pBlock, pStart, pBS,
                    nextId, idCycle, consVars, dbVars, updVars, updHist, tickHist,
                    prepShape, ghost, cRace, pCredit, c1, cSteps >>

\* return: ~ScopedWrite runs finishedWrite (blockSize1 + blockSize2).
PushFinish ==
    /\ ppc = "p_fin"
    /\ validEnd' = FinishedWrite(validEnd, pBS)
    /\ ppc' = "idle"
    /\ pBlock' = EmptyBuffer
    /\ pStart' = 0
    /\ pBS' = 0
    /\ nextId' = IF pBS > 0 THEN NextId(nextId) ELSE nextId
    /\ pSteps' = 0
    /\ ghost' = IF pBS > 0 THEN Append(ghost, GhostEntry(pBlock)) ELSE ghost
    /\ pCredit' = IF pBS > 0 THEN Max(0, pCredit - 1) ELSE pCredit
    /\ c1' = C1PushDone(c1, pBS > 0)
    /\ UNCHANGED << trkVars, validStart, buffers, numCh, idCycle,
                    consVars, dbVars, updVars, updHist, tickHist, prepShape,
                    cRace, cSteps >>

\* Fifo::getAvailableSpace on the render thread.
GetAvailableSpace ==
    /\ ppc = "idle"
    /\ prepShape # << >>
    /\ pCredit' = FreeSpace(validStart, validEnd)
    /\ UNCHANGED << trkVars, fifoVars, numCh, prodVars, consVars, dbVars, updVars, updHist,
                    tickHist, prepShape, ghost, cRace, c1, pSteps, cSteps >>

\* ------------------------------------------------- timerCallback, Fifo::pull
\* if (audioProcessor.audioBufferFifo.getNumAvailableForReading() > 0)
TickHasDataAlways(numReady) == TRUE
TickHasData(numReady) == numReady > 0

TickCheck ==
    /\ cpc = "idle"
    /\ editorAlive
    /\ cCredit' = NumReady(validStart, validEnd)
    /\ cpc' = IF TickHasData(cCredit') THEN "t_loop" ELSE "idle"
    /\ tickPulled' = 0
    /\ cFailed' = FALSE
    /\ UNCHANGED << trkVars, fifoVars, numCh, prodVars, cStart, cBS, editorAudioBuffer,
                    dbVars, updVars, updHist, prepShape, ghost, cRace, lastPop,
                    pCredit, c1, pSteps, cSteps >>

\* Where pull() goes after abstractFifo.read(1).
PullNext(blockSize1) == IF blockSize1 > 0 THEN "c_copy" ELSE "c_fin"

\* while (audioProcessor.audioBufferFifo.pull (editorAudioBuffer)): pull()
\* begins with abstractFifo.read (1), i.e. prepareToRead (1, ...).
PullPrepare ==
    /\ cpc = "t_loop"
    /\ cBS' = ReadBlockSize1(validStart, validEnd, 1)
    /\ cStart' = ReadStartIndex1(validStart, validEnd, 1)
    /\ cpc' = PullNext(cBS')
    /\ cSteps' = Step(cSteps)
    /\ c1' = C1Pull(c1, ppc = "idle")
    /\ UNCHANGED << trkVars, fifoVars, numCh, prodVars, editorAudioBuffer, dbVars, updVars,
                    updHist, tickHist, prepShape, ghost, cRace, cCredit, pCredit,
                    pSteps >>

\* t = buffers[scopedRead.startIndex1]
PullCopy ==
    /\ cpc = "c_copy"
    /\ editorAudioBuffer' =
          IF cRace = NoBlock THEN AssignBuffer(editorAudioBuffer, buffers[cStart])
          ELSE cRace
    /\ cRace' = NoBlock
    /\ cpc' = "c_fin"
    /\ cSteps' = Step(cSteps)
    /\ lastPop' = IF ghost = << >> THEN NoEntry ELSE Head(ghost)
    /\ ghost' = IF ghost = << >> THEN ghost ELSE Tail(ghost)
    /\ tickPulled' = Min(tickPulled + 1, 2)
    /\ pulledSince' = TRUE
    /\ UNCHANGED << trkVars, fifoVars, numCh, prodVars, cStart, cBS, dbVars, updVars,
                    evtDrained, updFirst, updDrained, updWoken, prepShape, cFailed,
                    cCredit, pCredit, c1, pSteps >>

\* while (pull (editorAudioBuffer)) { }: pull() is called again after a
\* true, and the loop ends after a false.
AfterPullOnce(ok) == "t_dbL"
AfterPull(ok) == IF ok THEN "t_loop" ELSE "t_dbL"

\* return: ~ScopedRead runs finishedRead (blockSize1 + blockSize2).
PullFinish ==
    /\ cpc = "c_fin"
    /\ validStart' = FinishedRead(validStart, cBS)
    /\ cpc' = AfterPull(cBS > 0)
    /\ cFailed' = (cBS = 0)
    /\ cCredit' = IF cBS > 0 THEN Max(0, cCredit - 1) ELSE cCredit
    /\ cSteps' = 0
    /\ cStart' = 0
    /\ cBS' = 0
    /\ c1' = C1PullDone(c1, cBS > 0)
    /\ UNCHANGED << trkVars, validEnd, buffers, numCh, prodVars,
                    editorAudioBuffer, dbVars, updVars, updHist, prepShape, ghost,
                    cRace, lastPop, tickPulled, pCredit, pSteps >>

\* magLeftChannel = editorAudioBuffer.getMagnitude (0, 0, getNumSamples());
\* dbLeftChannel = gainToDecibels (magLeftChannel, NEGATIVE_INFINITY)
StoreDbLeft ==
    /\ cpc = "t_dbL"
    /\ magLeft' \in GetMagnitude(editorAudioBuffer, 0)
    /\ dbLeftChannel' = GainToDecibels(magLeft', NEGATIVE_INFINITY)
    /\ cpc' = "t_dbR"
    /\ UNCHANGED << trkVars, fifoVars, numCh, prodVars, cStart, cBS, editorAudioBuffer,
                    dbRightChannel, dbPeakMono, magRight, updVars, updHist,
                    tickHist, prepShape, ghost, cRace, cCredit, pCredit, c1,
                    pSteps, cSteps >>

\* magRightChannel = editorAudioBuffer.getMagnitude (1, 0, getNumSamples());
\* dbRightChannel = gainToDecibels (magRightChannel, NEGATIVE_INFINITY)
StoreDbRight ==
    /\ cpc = "t_dbR"
    /\ magRight' \in GetMagnitude(editorAudioBuffer, 1)
    /\ dbRightChannel' = GainToDecibels(magRight', NEGATIVE_INFINITY)
    /\ cpc' = "t_dbM"
    /\ UNCHANGED << trkVars, fifoVars, numCh, prodVars, cStart, cBS, editorAudioBuffer,
                    dbLeftChannel, dbPeakMono, magLeft, updVars, updHist,
                    tickHist, prepShape, ghost, cRace, cCredit, pCredit, c1,
                    pSteps, cSteps >>

\* (magLeftChannel + magRightChannel) / 2
MonoGain(l, r) == IF IsFinite(l) /\ IsFinite(r) THEN (l + r) \div 2 ELSE NonFinite

\* magPeakMono = (magLeftChannel + magRightChannel) / 2;
\* dbPeakMono = gainToDecibels (magPeakMono, NEGATIVE_INFINITY)
StoreDbMono ==
    /\ cpc = "t_dbM"
    /\ dbPeakMono' = GainToDecibels(MonoGain(magLeft, magRight), NEGATIVE_INFINITY)
    /\ cpc' = "t_notify"
    /\ UNCHANGED << trkVars, fifoVars, numCh, prodVars, cStart, cBS, editorAudioBuffer,
                    dbLeftChannel, dbRightChannel, magLeft, magRight, updVars,
                    updHist, tickHist, prepShape, ghost, cRace, cCredit, pCredit,
                    c1, pSteps, cSteps >>

\* juce::Thread::notify() signals the thread's WaitableEvent: the signal
\* stays until a wait() consumes it, wherever the thread is at (pos).
SignalOnlyAWaiter(pos) == pos \in {"u_wait", "u_wait20"}
Signal(pos) == TRUE

\* updateThread.notify()
Notify ==
    /\ cpc = "t_notify"
    /\ event' = (event \/ Signal(upc))
    /\ evtDrained' = (tickPulled > 0)
    /\ cpc' = "idle"
    /\ magLeft' = 0
    /\ magRight' = 0
    /\ UNCHANGED << trkVars, fifoVars, numCh, prodVars, cStart, cBS, editorAudioBuffer,
                    dbLeftChannel, dbRightChannel, dbPeakMono, upc, shouldExit, editorAlive, updFirst, updDrained,
                    updWoken, pulledSince, tickHist, prepShape, ghost, cRace,
                    cCredit, pCredit, c1, pSteps, cSteps >>

\* ------------------------------------------------- UpdateThread
notUpd == << fifoVars, numCh, prodVars, consVars, dbVars, tickHist, prepShape,
             ghost, cRace, pCredit, c1, pSteps, cSteps >>

\* wait (20): returns when notified (the auto-reset event is consumed) ...
UpdWait20Notified ==
    /\ upc = "u_wait20"
    /\ event
    /\ event' = FALSE
    /\ evtDrained' = FALSE
    /\ upc' = "u_check"
    /\ UNCHANGED << trkVars, notUpd, shouldExit, editorAlive, updFirst, updDrained,
                    updWoken, pulledSince >>

\* ... or after 20 ms.
UpdWait20TimedOut ==
    /\ upc = "u_wait20"
    /\ ~event
    /\ upc' = "u_check"
    /\ UNCHANGED << trkVars, notUpd, event, shouldExit, editorAlive, updHist >>

\* if (threadShouldExit()) break; fn();   -- fn is [this] { update(); }
UpdCheck ==
    /\ upc = "u_check"
    /\ upc' = IF shouldExit THEN "u_done" ELSE "u_fn"
    /\ updDrained' = (~shouldExit /\ pulledSince)
    /\ pulledSince' = (shouldExit /\ pulledSince)
    /\ UNCHANGED << trkVars, notUpd, event, shouldExit, editorAlive, evtDrained, updFirst,
                    updWoken >>

\* update() runs and returns.
UpdFn ==
    /\ upc = "u_fn"
    /\ upc' = "u_wait"
    /\ updFirst' = FALSE
    /\ updDrained' = FALSE
    /\ updWoken' = FALSE
    /\ UNCHANGED << trkVars, notUpd, event, shouldExit, editorAlive, evtDrained,
                    pulledSince >>

\* wait (-1): returns only when notified.
UpdWait ==
    /\ upc = "u_wait"
    /\ event
    /\ event' = FALSE
    /\ updWoken' = evtDrained
    /\ evtDrained' = FALSE
    /\ upc' = "u_check"
    /\ UNCHANGED << trkVars, notUpd, shouldExit, editorAlive, updFirst, updDrained,
                    pulledSince >>

\* ~PFM10AudioProcessorEditor destroys updateThread: ~UpdateThread calls
\* stopThread (2000), i.e. signalThreadShouldExit(), then notify(), then it
\* waits for the thread to exit.  It runs on the message thread, so not
\* inside a timerCallback; no tick follows it.
StopThread ==
    /\ editorAlive
    /\ cpc = "idle"
    /\ editorAlive' = FALSE
    /\ shouldExit' = TRUE
    /\ cpc' = "s_notify"
    /\ stopAt' = upc
    /\ UNCHANGED << avgVars, dvhVars, uLeft, uRight, uMono, mArg, sideVars,
                    fifoVars, numCh, prodVars, cStart, cBS, editorAudioBuffer,
                    dbVars, tickHist, prepShape, ghost, cRace, pCredit, c1,
                    pSteps, cSteps, upc, event, updHist >>

\* stopThread's notify().
StopEventNoNotify(e) == e
StopEvent(e) == TRUE

StopNotify ==
    /\ cpc = "s_notify"
    /\ event' = StopEvent(event)
    /\ cpc' = "s_join"
    /\ UNCHANGED << trkVars, fifoVars, numCh, prodVars, cStart, cBS,
                    editorAudioBuffer, dbVars, tickHist, prepShape, ghost, cRace,
                    pCredit, c1, pSteps, cSteps, upc, shouldExit, editorAlive,
                    updHist >>

\* ------------------------------------------------- float arithmetic
\* The trackers compute in float (Averager<float>, float heldValue): 24
\* significant bits, results rounded to nearest, ties to even.  Values are
\* whole numbers of thousandths; every whole number below 2^FloatBits is a
\* float, above it only the multiples of Ulp are.
FloatBits == 24
Abs(x) == IF x < 0 THEN -x ELSE x
RECURSIVE Ulp(_)
Ulp(a) == IF a < 2 ^ FloatBits THEN 1 ELSE 2 * Ulp(a \div 2)

\* The multiple of u nearest to a / d (a >= 0, d > 0), ties to the even one.
NearestMultiple(a, d, u) ==
    LET q == a \div (d * u)
        r == a % (d * u)
    IN  IF 2 * r < d * u THEN q * u
        ELSE IF 2 * r > d * u THEN (q + 1) * u
        ELSE IF q % 2 = 0 THEN q * u ELSE (q + 1) * u

FloatExact(x) == x
FloatRound(x) ==
    IF x >= 0 THEN NearestMultiple(x, 1, Ulp(x)) ELSE -NearestMultiple(-x, 1, Ulp(-x))

FAdd(a, b) == IF IsFinite(a) /\ IsFinite(b) THEN FloatRound(a + b) ELSE NonFinite
FSub(a, b) == IF IsFinite(a) /\ IsFinite(b) THEN FloatRound(a - b) ELSE NonFinite
\* float * size_t: the count is converted to float.
FMul(a, n) == IF IsFinite(a) THEN FloatRound(a * n) ELSE NonFinite
\* float / size_t, kept to the thousandth; nothing finite comes of n = 0.
FDiv(a, n) ==
    IF ~IsFinite(a) \/ n = 0 THEN NonFinite
    ELSE IF a >= 0 THEN NearestMultiple(a, n, Ulp(a \div n))
    ELSE -NearestMultiple(-a, n, Ulp((-a) \div n))

RECURSIVE SumSeq(_)
SumSeq(s) == IF s = << >> THEN 0 ELSE Head(s) + SumSeq(Tail(s))
\* The last n entries of s (all of s if it has fewer).
LastN(s, n) == IF Len(s) <= n THEN s ELSE SubSeq(s, Len(s) - n + 1, Len(s))

\* ------------------------------------------------- Averager<float>
\* Window lengths are scaled down: the menu's 6 .. 120 intervals and the
\* constructor's 30 become lengths up to MaxWindow.
MaxWindow == 3
InitWindow == 2
\* The averagerIntervals property is changed at most this often.
MaxIntervalChanges == 2
\* A sample with |sample| = 2^FloatBits: adding 1 to it is lost to rounding.
BigSample == 2 ^ FloatBits
AvgSamples == {NEGATIVE_INFINITY, 0, 1, BigSample}
\* What a read outside elements may find.
Garbage == {0, 1}

\* std::vector::resize (n): the first n elements are kept, new ones are 0.
VectorResizeKeep(v, n) == v
VectorResize(v, n) == [i \in 1 .. n |-> IF i <= Len(v) THEN v[i] ELSE 0]

\* ++writeIndexTemp; if (writeIndexTemp > (elements.size() - 1)) writeIndexTemp = 0;
\* elements.size() - 1 is a size_t: with no elements it is SIZE_MAX.
NextWriteIndexNoWrap(w, size) == w + 1
NextWriteIndex(w, size) == IF size > 0 /\ w + 1 > size - 1 THEN 0 ELSE w + 1

\* Averager::clear (initialValue), on the elements es.
ClearTo(es, initialValue) ==
    /\ elements' = [i \in 1 .. Len(es) |-> initialValue]
    /\ writeIndex' = 0
    /\ avg' = initialValue
    /\ sum' = FMul(initialValue, Len(es))

\* Averager::resize (numElements, initialValue): elements.resize, then clear.
ResizeTo(numElements, initialValue) ==
    /\ ~avgFault
    /\ ClearTo(VectorResize(elements, numElements), initialValue)
    /\ avgOp' = [op |-> "resize", n |-> numElements, v |-> initialValue,
                  size0 |-> Len(elements), w0 |-> writeIndex]
    /\ fed' = << >>
    /\ avgFault' = FALSE

\* Averager::add (t).  An index outside elements is undefined behaviour: the
\* read finds anything, the write lands outside the vector, and the model
\* follows this averager no further.
\* w and s are the values add() loaded from writeIndex and sum at its start.
AddUsing(t, w, s) ==
    /\ ~avgFault
    /\ avgOp' = [op |-> "add", n |-> Len(elements), v |-> t,
                  size0 |-> Len(elements), w0 |-> w]
    /\ fed' = LastN(Append(fed, t), MaxWindow)
    /\ IF w < Len(elements)
       THEN /\ sum' = FAdd(FSub(s, elements[w + 1]), t)
            /\ elements' = [elements EXCEPT ![w + 1] = t]
            /\ avgFault' = FALSE
       ELSE /\ \E g \in Garbage : sum' = FAdd(FSub(s, g), t)
            /\ elements' = elements
            /\ avgFault' = TRUE
    /\ writeIndex' = NextWriteIndex(w, Len(elements))
    /\ avg' = FDiv(sum', Len(elements))

AddTo(t) == AddUsing(t, writeIndex, sum)

\* The three operations as calls of a program that uses one Averager.
AveragerResize(numElements, initialValue) ==
    /\ ResizeTo(numElements, initialValue)
    /\ UNCHANGED << baseVars, callVars, dvhVars, intervalChanges >>

AveragerAdd(t) ==
    /\ AddTo(t)
    /\ UNCHANGED << baseVars, callVars, dvhVars, intervalChanges >>

\* MacroMeter::setAveragerIntervals (numElements), called by
\* StereoMeter::valueTreePropertyChanged with the averagerIntervals property:
\* averager.resize (size_t (numElements), averager.getAvg()).
SetAveragerIntervals(numElements) ==
    /\ intervalChanges < MaxIntervalChanges
    /\ intervalChanges' = intervalChanges + 1
    /\ ResizeTo(numElements, avg)
    /\ UNCHANGED << baseVars, callVars, dvhVars >>

\* Averager (30, NEGATIVE_INFINITY), the length scaled to InitWindow.
InitAverager ==
    /\ elements = [i \in 1 .. InitWindow |-> NEGATIVE_INFINITY]
    /\ writeIndex = 0
    /\ avg = NEGATIVE_INFINITY
    /\ sum = FMul(NEGATIVE_INFINITY, InitWindow)
    /\ avgOp = [op |-> "init", n |-> InitWindow, v |-> NEGATIVE_INFINITY,
                 size0 |-> 0, w0 |-> 0]
    /\ fed = << >>
    /\ avgFault = FALSE
    /\ intervalChanges = 0

\* ------------------------------------------------- DecayingValueHolder
\* startTimerHz (60): getTimerInterval() is 1000 / 60 ms.
TimerIntervalMs == 1000 \div 60
\* Time since the peak, in classes: 0 (the millisecond of the peak),
\* 500 (1 .. 500 ms), 501 (more); the hold times are 0 and 500 ms.
ElapsedClasses == {0, 500, 501}
HoldTimes == {0, 500}
\* decayRate values of the menu used here (dB per second).
DecayRates == {12, 36}
\* Levels gainToDecibels yields for peak magnitudes 0, 1/2, 1 and 5.
Levels == { GainToDecibels(g, NEGATIVE_INFINITY) : g \in {0, 2, 4, 20} }

\* setDecayRate: static_cast<float> (dbPerSec) * getTimerInterval() / 1000,
\* in thousandths of a dB per tick.
DecayRatePerFrame(dbPerSec) == (dbPerSec * 1000 * TimerIntervalMs) \div 1000

\* juce::jlimit (lowerLimit, upperLimit, valueToConstrain)
JLimit(lower, upper, v) == IF v < lower THEN lower ELSE IF upper < v THEN upper ELSE v

\* updateHeldValue: if (input > heldValue) { peakTime = getNow(); heldValue = input; }
SupersedesAlways(input, held) == TRUE
SupersedesOrEquals(input, held) == input >= held
Supersedes(input, held) == input > held

UpdateHeldValueTo(input) ==
    /\ heldValue' = IF Supersedes(input, heldValue) THEN input ELSE heldValue
    /\ sincePeak' = IF Supersedes(input, heldValue) THEN 0 ELSE sincePeak
    /\ heldMax' = Max(heldMax, input)
    /\ dvhOp' = [op |-> "update", arg |-> input, before |-> heldValue,
                  since |-> sincePeak]
    /\ UNCHANGED << holdForInf, holdTimeMs, decayRatePerFrame >>

\* timerCallback's test: ! holdForInf, then (now - peakTime) > holdTimeMs
PastHoldOrAtIt(elapsed, hold) == elapsed >= hold
PastHold(elapsed, hold) == elapsed > hold
DecaysIgnoringInf(inf, elapsed, hold) == elapsed > hold
Decays(inf, elapsed, hold) == ~inf /\ PastHold(elapsed, hold)

\* heldValue -= decayRatePerFrame; heldValue = jlimit (NEGATIVE_INFINITY, MAX_DECIBELS, heldValue)
DecayStepNone(held, rate) == held
DecayStep(held, rate) == JLimit(NEGATIVE_INFINITY, MAX_DECIBELS, held - rate)

TimerCallbackTo ==
    /\ heldValue' = IF Decays(holdForInf, sincePeak, holdTimeMs)
                    THEN DecayStep(heldValue, decayRatePerFrame) ELSE heldValue
    /\ heldMax' = heldValue'
    /\ dvhOp' = [op |-> "tick", arg |-> sincePeak, before |-> heldValue]
    /\ UNCHANGED << holdForInf, holdTimeMs, sincePeak, decayRatePerFrame >>

\* setHoldForInf (b): holdForInf = b; if (! b) resetHeldValue();
HeldAfterSetInfKeep(b, held) == held
HeldAfterSetInf(b, held) == IF ~b THEN NEGATIVE_INFINITY ELSE held

SetHoldForInfTo(b) ==
    /\ holdForInf' = b
    /\ heldValue' = HeldAfterSetInf(b, heldValue)
    /\ heldMax' = heldValue'
    /\ dvhOp' = [op |-> IF b THEN "infOn" ELSE "infOff", arg |-> 0, before |-> heldValue]
    /\ UNCHANGED << holdTimeMs, sincePeak, decayRatePerFrame >>

\* The operations as calls of a program that uses one DecayingValueHolder.
UpdateHeldValue(input) ==
    /\ UpdateHeldValueTo(input)
    /\ UNCHANGED << baseVars, callVars, avgVars >>

DvhTimerCallback ==
    /\ TimerCallbackTo
    /\ UNCHANGED << baseVars, callVars, avgVars >>

\* resetHeldValue: heldValue = NEGATIVE_INFINITY
ResetHeldValue ==
    /\ heldValue' = NEGATIVE_INFINITY
    /\ heldMax' = NEGATIVE_INFINITY
    /\ dvhOp' = [op |-> "reset", arg |-> 0, before |-> heldValue]
    /\ UNCHANGED << baseVars, callVars, avgVars, holdForInf, holdTimeMs, sincePeak,
                    decayRatePerFrame >>

SetHoldForInf(b) ==
    /\ SetHoldForInfTo(b)
    /\ UNCHANGED << baseVars, callVars, avgVars >>

\* setHoldTime (ms): holdTimeMs = ms
SetHoldTime(ms) ==
    /\ holdTimeMs' = ms
    /\ dvhOp' = [op |-> "holdTime", arg |-> ms, before |-> heldValue]
    /\ UNCHANGED << baseVars, callVars, avgVars, holdForInf, heldValue, sincePeak,
                    decayRatePerFrame, heldMax >>

SetDecayRate(dbPerSec) ==
    /\ decayRatePerFrame' = DecayRatePerFrame(dbPerSec)
    /\ dvhOp' = [op |-> "decayRate", arg |-> dbPerSec, before |-> heldValue]
    /\ UNCHANGED << baseVars, callVars, avgVars, holdForInf, heldValue, holdTimeMs,
                    sincePeak, heldMax >>

\* juce::Time::currentTimeMillis() moves on, into a later class.
TimeAdvance ==
    /\ \E c \in ElapsedClasses : c > sincePeak /\ sincePeak' = c
    /\ UNCHANGED << baseVars, callVars, avgVars, holdForInf, heldValue, holdTimeMs,
                    decayRatePerFrame, dvhOp, heldMax >>

\* DecayingValueHolder (vt) with the tree's peakHoldInf, peakHoldDuration and
\* decayRate: setHoldForInf, setHoldTime, setDecayRate after startTimerHz (60).
InitDvh(inf, holdMs, dbPerSec) ==
    /\ holdForInf = inf
    /\ heldValue = NEGATIVE_INFINITY
    /\ holdTimeMs = holdMs
    /\ sincePeak = 0
    /\ decayRatePerFrame = DecayRatePerFrame(dbPerSec)
    /\ dvhOp = [op |-> "init", arg |-> 0, before |-> NEGATIVE_INFINITY]
    /\ heldMax = NEGATIVE_INFINITY

\* Nothing is running: the locals hold their initial values.
InitCalls ==
    /\ uLeft = NEGATIVE_INFINITY
    /\ uRight = NEGATIVE_INFINITY
    /\ uMono = NEGATIVE_INFINITY
    /\ mArg = 0
    /\ stopAt = "none"
    /\ dHeld = NEGATIVE_INFINITY
    /\ writeIndexTemp = 0
    /\ sumTemp = 0
    /\ dvhTicks = 0

\* The default tree (peakHoldEnabled true, peakHoldInf false,
\* peakHoldDuration 500) and ValueHolder (vt): setHoldForInf,
\* setHoldDuration, setHoldEnabled with the tree's values.
InitMenu ==
    /\ peakHoldEnabled = TRUE
    /\ peakHoldInf = FALSE
    /\ peakHoldDuration = 500
    /\ holdEnabled = TRUE
    /\ textHoldForInf = FALSE
    /\ durationToHoldForMs = 500

\* The default tree: peakHoldInf false, peakHoldDuration 500, decayRate 12.
InitTrackers == InitAverager /\ InitDvh(FALSE, 500, 12) /\ InitCalls /\ InitMenu

\* ------------------------------------------------- the Hold Time menu
\* Items of peakHoldDurationMenu: "0s", "0.5s", "2s" and "inf" ("4s" and
\* "6s" behave as "2s" does).
HoldItems == {"0s", "500", "2000", "inf"}
ItemEnabled(item) == item # "0s"
ItemInf(item) == item = "inf"
ItemSetsDuration(item) == item \in {"500", "2000"}
ItemDuration(item) == IF item = "500" THEN 500 ELSE 2000

\* ValueTree::setProperty calls the listeners only if the value changes.
Changes(old, new) == old # new

\* ValueHolder::setHoldEnabled (b): holdEnabled = b; if (! b) setHoldDuration (0);
DurationAfterSetEnabled(b, ms) == IF ~b THEN 0 ELSE ms

\* onPeakHoldDurationMenuChanged: setProperty of peakHoldEnabled, of
\* peakHoldInf and, for a duration item, of peakHoldDuration, each followed by
\* the listeners' valueTreePropertyChanged: the ValueHolder's (setHoldEnabled,
\* setHoldForInf, setHoldDuration) and the DecayingValueHolder's
\* (setHoldForInf, setHoldTime).
SelectHoldTime(item) ==
    LET enabledChanges == Changes(peakHoldEnabled, ItemEnabled(item))
        infChanges == Changes(peakHoldInf, ItemInf(item))
        durationChanges == /\ ItemSetsDuration(item)
                           /\ Changes(peakHoldDuration, ItemDuration(item))
        afterEnabled == IF enabledChanges
                        THEN DurationAfterSetEnabled(ItemEnabled(item),
                                                     durationToHoldForMs)
                        ELSE durationToHoldForMs
    IN  /\ editorAlive
        /\ cpc = "idle"
        /\ peakHoldEnabled' = ItemEnabled(item)
        /\ peakHoldInf' = ItemInf(item)
        /\ peakHoldDuration' = IF ItemSetsDuration(item) THEN ItemDuration(item)
                                ELSE peakHoldDuration
        /\ holdEnabled' = ItemEnabled(item)
        /\ textHoldForInf' = ItemInf(item)
        /\ durationToHoldForMs' = IF durationChanges THEN ItemDuration(item)
                                   ELSE afterEnabled
        /\ holdForInf' = ItemInf(item)
        /\ heldValue' = IF infChanges THEN HeldAfterSetInf(ItemInf(item), heldValue)
                         ELSE heldValue
        /\ holdTimeMs' = IF durationChanges THEN ItemDuration(item) ELSE holdTimeMs
        /\ heldMax' = heldValue'
        /\ dvhOp' = [op |-> "menu", arg |-> item, before |-> heldValue]
        /\ UNCHANGED << baseVars, avgVars, sincePeak, decayRatePerFrame, uLeft,
                        uRight, uMono, mArg, stopAt, raceVars >>

\* ------------------------------------------------- update(), step by step
\* UpdFn above is update() as one step, for claims about when it runs.  The
\* steps below follow what it touches: the loads of the three atomics, the
\* left MacroMeter's peak Meter (its DecayingValueHolder) and Averager, and
\* editorAudioBuffer, which the Goniometer and the CorrelationMeter hold by
\* reference.  The right MacroMeter and the average Meter own trackers of
\* their own, used the same way.
notTrk == << fifoVars, numCh, prodVars, consVars, dbVars, tickHist, prepShape,
             ghost, cRace, pCredit, c1, pSteps, cSteps >>

\* peakStereoMeter.update (dbLeftChannel.load(), dbRightChannel.load()): the
\* two loads are arguments of one call, evaluated in either order.
UpdLoadLeft ==
    /\ upc \in {"u_fn", "u_fnR"}
    /\ uLeft' = dbLeftChannel
    /\ upc' = IF upc = "u_fn" THEN "u_fnL" ELSE "u_held"
    /\ UNCHANGED << notTrk, avgVars, dvhVars, uRight, uMono, mArg, stopAt, sideVars, event,
                    shouldExit, editorAlive, updHist >>

UpdLoadRight ==
    /\ upc \in {"u_fn", "u_fnL"}
    /\ uRight' = dbRightChannel
    /\ upc' = IF upc = "u_fn" THEN "u_fnR" ELSE "u_held"
    /\ UNCHANGED << notTrk, avgVars, dvhVars, uLeft, uMono, mArg, stopAt, sideVars, event,
                    shouldExit, editorAlive, updHist >>

\* StereoMeter::update -> leftMacroMeter.updateLevel (level) ->
\* peakMeter.update (level): decayingValueHolder.updateHeldValue (dbPeak)
\* (peakHoldEnabled, true by default).
UpdHeldValue ==
    /\ upc = "u_held"
    /\ UpdateHeldValueTo(uLeft)
    /\ upc' = "u_add"
    /\ UNCHANGED << notTrk, avgVars, callVars, event, shouldExit, editorAlive,
                    updHist >>

\* MacroMeter::updateLevel: averager.add (level).
UpdAdd ==
    /\ upc = "u_add"
    /\ IF avgFault THEN UNCHANGED avgVars
       ELSE AddTo(uLeft) /\ UNCHANGED intervalChanges
    /\ upc' = "u_mono"
    /\ UNCHANGED << notTrk, dvhVars, callVars, event, shouldExit, editorAlive,
                    updHist >>

\* peakHistogram.update (dbPeakMono.load())
UpdLoadMono ==
    /\ upc = "u_mono"
    /\ uMono' = dbPeakMono
    /\ upc' = "u_gonio"
    /\ UNCHANGED << notTrk, avgVars, dvhVars, uLeft, uRight, mArg, stopAt, sideVars, event,
                    shouldExit, editorAlive, updHist >>

\* stereoImageMeter.update() -> goniometer.update(): internalBuffer.copyFrom
\* (.., buffer, ..) reads editorAudioBuffer; upc = "u_gonio" while it does.
UpdGonio ==
    /\ upc = "u_gonio"
    /\ upc' = "u_corr"
    /\ UNCHANGED << notTrk, trkVars, event, shouldExit, editorAlive, updHist >>

\* correlationMeter.update(): buffer.getSample (..) reads editorAudioBuffer;
\* then update() returns.
UpdCorr ==
    /\ upc = "u_corr"
    /\ upc' = "u_wait"
    /\ uLeft' = NEGATIVE_INFINITY
    /\ uRight' = NEGATIVE_INFINITY
    /\ uMono' = NEGATIVE_INFINITY
    /\ updFirst' = FALSE
    /\ updDrained' = FALSE
    /\ updWoken' = FALSE
    /\ UNCHANGED << notTrk, avgVars, dvhVars, mArg, stopAt, sideVars, event, shouldExit,
                    editorAlive, evtDrained, pulledSince >>

\* ------------------------------------------------- message thread callbacks
\* The DecayingValueHolder's own juce::Timer and the value tree listeners
\* run on the message thread, between the editor's timer callbacks.
notMsg == << fifoVars, numCh, prodVars, cStart, cBS, editorAudioBuffer, dbVars,
             tickHist, prepShape, ghost, cRace, pCredit, c1, pSteps, cSteps,
             updVars, updHist >>

\* DecayingValueHolder::timerCallback is entered ...
DvhTimerEnter ==
    /\ cpc = "idle"
    /\ editorAlive
    /\ cpc' = "d_tick"
    /\ UNCHANGED << notMsg, trkVars >>

\* ... and runs.
DvhTimerRun ==
    /\ cpc = "d_tick"
    /\ TimerCallbackTo
    /\ cpc' = "idle"
    /\ UNCHANGED << notMsg, avgVars, callVars >>

\* StereoMeter::valueTreePropertyChanged (averagerIntervals) is entered ...
IntervalsEnter(numElements) ==
    /\ cpc = "idle"
    /\ editorAlive
    /\ intervalChanges < MaxIntervalChanges
    /\ ~avgFault
    /\ mArg' = numElements
    /\ cpc' = "a_resize"
    /\ UNCHANGED << notMsg, avgVars, dvhVars, uLeft, uRight, uMono, stopAt, sideVars >>

\* ... and leftMacroMeter.setAveragerIntervals runs averager.resize.
IntervalsRun ==
    /\ cpc = "a_resize"
    /\ IF avgFault THEN UNCHANGED avgVars
       ELSE ResizeTo(mArg, avg) /\ intervalChanges' = intervalChanges + 1
    /\ mArg' = 0
    /\ cpc' = "idle"
    /\ UNCHANGED << notMsg, dvhVars, uLeft, uRight, uMono, stopAt, sideVars >>

\* ------------------------------------------------- the trackers, load by load
\* The same calls, divided where another thread's store can fall between a
\* load and the store that depends on it.  Every build loads before it
\* stores; what else a build may do with the unsynchronised fields is not
\* followed here.

\* updateHeldValue: if (input > heldValue) ...
HeldCompare ==
    /\ upc = "u_held"
    /\ upc' = IF Supersedes(uLeft, heldValue) THEN "u_heldW" ELSE "u_add"
    /\ heldMax' = Max(heldMax, uLeft)
    /\ dvhOp' = [op |-> "update", arg |-> uLeft, before |-> heldValue,
                  since |-> sincePeak]
    /\ UNCHANGED << notTrk, avgVars, callVars, event, shouldExit, editorAlive,
                    updHist, holdForInf, heldValue, holdTimeMs, sincePeak,
                    decayRatePerFrame >>

\* ... { peakTime = getNow(); heldValue = input; }
HeldStore ==
    /\ upc = "u_heldW"
    /\ heldValue' = uLeft
    /\ sincePeak' = 0
    /\ upc' = "u_add"
    /\ UNCHANGED << notTrk, avgVars, callVars, event, shouldExit, editorAlive,
                    updHist, holdForInf, holdTimeMs, decayRatePerFrame, dvhOp,
                    heldMax >>

\* add: auto writeIndexTemp = writeIndex.load(); auto sumTemp = sum.load();
AddLoad ==
    /\ upc = "u_add"
    /\ writeIndexTemp' = writeIndex
    /\ sumTemp' = sum
    /\ upc' = "u_addW"
    /\ UNCHANGED << notTrk, avgVars, dvhVars, uLeft, uRight, uMono, mArg, stopAt,
                    dHeld, dvhTicks, menuVars, event, shouldExit, editorAlive,
                    updHist >>

\* add: sumTemp -= elements[writeIndexTemp]; ... ; the stores
AddUse ==
    /\ upc = "u_addW"
    /\ IF avgFault THEN UNCHANGED avgVars
       ELSE AddUsing(uLeft, writeIndexTemp, sumTemp) /\ UNCHANGED intervalChanges
    /\ writeIndexTemp' = 0
    /\ sumTemp' = 0
    /\ upc' = "u_mono"
    /\ UNCHANGED << notTrk, dvhVars, uLeft, uRight, uMono, mArg, stopAt, dHeld,
                    dvhTicks, menuVars, event, shouldExit, editorAlive, updHist >>

\* DecayingValueHolder::timerCallback is entered, at most MaxDvhTicks times.
MaxDvhTicks == 2
DvhTimerEnterCounted ==
    /\ cpc = "idle"
    /\ editorAlive
    /\ dvhTicks < MaxDvhTicks
    /\ dvhTicks' = dvhTicks + 1
    /\ cpc' = "d_tick"
    /\ UNCHANGED << notMsg, avgVars, dvhVars, uLeft, uRight, uMono, mArg, stopAt,
                    dHeld, writeIndexTemp, sumTemp, menuVars >>

\* DecayingValueHolder::timerCallback: the tests, and the load of
\* heldValue -= decayRatePerFrame ...
DvhTimerLoad ==
    /\ cpc = "d_tick"
    /\ cpc' = IF Decays(holdForInf, sincePeak, holdTimeMs) THEN "d_store" ELSE "idle"
    /\ dHeld' = IF Decays(holdForInf, sincePeak, holdTimeMs) THEN heldValue ELSE dHeld
    /\ dvhOp' = [op |-> "tick", arg |-> sincePeak, before |-> heldValue]
    /\ UNCHANGED << notMsg, avgVars, uLeft, uRight, uMono, mArg, stopAt,
                    writeIndexTemp, sumTemp, dvhTicks, menuVars, holdForInf, heldValue,
                    holdTimeMs, sincePeak, decayRatePerFrame, heldMax >>

\* ... and the store of the clamped result.
DvhTimerStore ==
    /\ cpc = "d_store"
    /\ heldValue' = DecayStep(dHeld, decayRatePerFrame)
    /\ heldMax' = heldValue'
    /\ dHeld' = NEGATIVE_INFINITY
    /\ cpc' = "idle"
    /\ UNCHANGED << notMsg, avgVars, uLeft, uRight, uMono, mArg, stopAt,
                    writeIndexTemp, sumTemp, dvhTicks, menuVars, holdForInf, holdTimeMs,
                    sincePeak, decayRatePerFrame, dvhOp >>

\* The host renders MaxBlocks blocks.
MaxBlocks == 2
RenderBlock ==
    /\ nextId <= MaxBlocks
    /\ PushPrepare

\* One of these blocks holds an infinite sample.
RenderHotBlock ==
    /\ nextId <= MaxBlocks
    /\ PushBlock(HotData)

\* ------------------------------------------------- specification
\* After construction: an empty Fifo of default-constructed buffers, the
\* editor's buffer sized (2, 512) with its samples not initialised, the
\* timer started and the update thread started.
InitCommon ==
    /\ validStart = 0
    /\ validEnd = 0
    /\ buffers = [i \in Slots |-> EmptyBuffer]
    /\ numCh = 2
    /\ ppc = "idle"
    /\ pBlock = EmptyBuffer
    /\ pStart = 0
    /\ pBS = 0
    /\ nextId = 1
    /\ cpc = "idle"
    /\ cStart = 0
    /\ cBS = 0
    /\ editorAudioBuffer = MakeBlock(-1, 2, 512)
    /\ dbLeftChannel = NEGATIVE_INFINITY
    /\ dbRightChannel = NEGATIVE_INFINITY
    /\ dbPeakMono = NEGATIVE_INFINITY
    /\ magLeft = 0
    /\ magRight = 0
    /\ upc = "u_wait20"
    /\ event = FALSE
    /\ shouldExit = FALSE
    /\ editorAlive = TRUE
    /\ prepShape = << >>
    /\ ghost = << >>
    /\ cRace = NoBlock
    /\ lastPop = NoEntry
    /\ tickPulled = 0
    /\ cCredit = 0
    /\ pCredit = 0
    /\ cFailed = FALSE
    /\ c1 = [phase |-> "run", res |-> << >>, after |-> "none"]
    /\ pSteps = 0
    /\ cSteps = 0
    /\ evtDrained = FALSE
    /\ updFirst = TRUE
    /\ updDrained = FALSE
    /\ updWoken = FALSE
    /\ pulledSince = FALSE

Init == InitCommon /\ InitTrackers /\ idCycle = NumIds
InitSmall == InitCommon /\ InitTrackers /\ idCycle = SmallIds

ProducerStep == PushPrepare \/ PushCopy \/ PushFinish
PullStep == PullPrepare \/ PullCopy \/ PullFinish
TickStep == TickCheck \/ PullStep \/ StoreDbLeft \/ StoreDbRight \/ StoreDbMono \/ Notify
UpdateStep == UpdWait20Notified \/ UpdWait20TimedOut \/ UpdCheck \/ UpdFn \/ UpdWait

\* The render thread and the message thread, the host preparing once.  The
\* update thread stores to none of the variables these steps read.
Next ==
    \/ \E f \in Frames, c \in Chans : FirstPrepare(f, c)
    \/ PushPrepare
    \/ PushCopy
    \/ PushFinish
    \/ TickCheck
    \/ PullPrepare
    \/ PullCopy
    \/ PullFinish
    \/ StoreDbLeft
    \/ StoreDbRight
    \/ StoreDbMono
    \/ Notify

Spec == Init /\ [][Next]_vars

\* All three threads and the editor's destruction, the host rendering
\* stereo blocks of one frame.
NextUpd ==
    \/ FirstPrepare(1, 2)
    \/ PushPrepare
    \/ PushCopy
    \/ PushFinish
    \/ TickCheck
    \/ PullPrepare
    \/ PullCopy
    \/ PullFinish
    \/ StoreDbLeft
    \/ StoreDbRight
    \/ StoreDbMono
    \/ Notify
    \/ UpdWait20Notified
    \/ UpdWait20TimedOut
    \/ UpdCheck
    \/ UpdFn
    \/ UpdWait
    \/ StopThread
    \/ StopNotify

SpecUpd == InitSmall /\ [][NextUpd]_vars

\* The render thread, which also asks for the free space, and the message
\* thread; stereo blocks of one frame.
NextQ ==
    \/ FirstPrepare(1, 2)
    \/ GetAvailableSpace
    \/ PushPrepare
    \/ PushCopy
    \/ PushFinish
    \/ TickCheck
    \/ PullPrepare
    \/ PullCopy
    \/ PullFinish
    \/ StoreDbLeft
    \/ StoreDbRight
    \/ StoreDbMono
    \/ Notify

SpecQ == InitSmall /\ [][NextQ]_vars

\* The render thread and the message thread under the scheduling the
\* platform gives them: the timer keeps firing and a callback that was
\* entered runs on; a push() that began completes.  The host may stop
\* rendering, so no fairness on PushPrepare.
NextLive ==
    \/ FirstPrepare(1, 2)
    \/ PushPrepare
    \/ PushCopy
    \/ PushFinish
    \/ TickCheck
    \/ PullPrepare
    \/ PullCopy
    \/ PullFinish
    \/ StoreDbLeft
    \/ StoreDbRight
    \/ StoreDbMono
    \/ Notify

SpecLive ==
    /\ InitSmall
    /\ [][NextLive]_vars
    /\ WF_vars(TickStep)
    /\ WF_vars(PushCopy \/ PushFinish)

\* One Averager<float> and the calls a program makes on it, in any order:
\* resize and add with any arguments, and the averagerIntervals listener.
NextAvg ==
    \/ \E n \in 0 .. MaxWindow, v \in AvgSamples : AveragerResize(n, v)
    \/ \E t \in AvgSamples : AveragerAdd(t)
    \/ \E n \in 0 .. MaxWindow : SetAveragerIntervals(n)

SpecAvg == InitSmall /\ [][NextAvg]_vars

\* The Averager as a MacroMeter uses it: updateLevel adds the levels it is
\* given, the averagerIntervals listener resizes to the property's value
\* (the menu sets 6 .. 120; a restored state holds any integer).
NextMeter ==
    \/ \E t \in Levels : AveragerAdd(t)
    \/ \E n \in 0 .. MaxWindow : SetAveragerIntervals(n)

SpecMeter == InitSmall /\ [][NextMeter]_vars

\* One DecayingValueHolder and the calls made on it, in any order, with
\* time passing between them.
NextDvh ==
    \/ \E x \in Levels : UpdateHeldValue(x)
    \/ DvhTimerCallback
    \/ ResetHeldValue
    \/ \E b \in BOOLEAN : SetHoldForInf(b)
    \/ \E ms \in HoldTimes : SetHoldTime(ms)
    \/ \E d \in DecayRates : SetDecayRate(d)
    \/ TimeAdvance

SpecDvh == InitSmall /\ [][NextDvh]_vars

\* A DecayingValueHolder built from a tree with peakHoldInf false,
\* peakHoldDuration 0 and a decay rate of the menu; levels are fed to it for
\* as long as the caller likes.  The juce::Timer keeps firing and the clock
\* keeps running.
InitDecay ==
    /\ InitCommon
    /\ idCycle = SmallIds
    /\ InitAverager
    /\ InitCalls
    /\ InitMenu
    /\ \E d \in {3, 36} : InitDvh(FALSE, 0, d)

NextDecay ==
    \/ \E x \in Levels : UpdateHeldValue(x)
    \/ DvhTimerCallback
    \/ TimeAdvance

SpecDecay ==
    /\ InitDecay
    /\ [][NextDecay]_vars
    /\ WF_vars(DvhTimerCallback)
    /\ WF_vars(TimeAdvance)

\* The three threads with update() taken step by step and the trackers'
\* callbacks on the message thread; stereo blocks of one frame, all within
\* the hold time of the first peak.
NextTrk ==
    \/ FirstPrepare(1, 2)
    \/ RenderBlock
    \/ PushCopy
    \/ PushFinish
    \/ TickCheck
    \/ PullPrepare
    \/ PullCopy
    \/ PullFinish
    \/ StoreDbLeft
    \/ StoreDbRight
    \/ StoreDbMono
    \/ Notify
    \/ UpdWait20Notified
    \/ UpdWait20TimedOut
    \/ UpdCheck
    \/ UpdLoadLeft
    \/ UpdLoadRight
    \/ UpdHeldValue
    \/ UpdAdd
    \/ UpdLoadMono
    \/ UpdGonio
    \/ UpdCorr
    \/ UpdWait
    \/ DvhTimerEnter
    \/ DvhTimerRun
    \/ \E n \in 1 .. MaxWindow : IntervalsEnter(n)
    \/ IntervalsRun

SpecTrk == Init /\ [][NextTrk]_vars

\* From the host's block to the trackers: blocks with finite and with
\* infinite samples, drained by the tick and passed on by update().
NextSan ==
    \/ FirstPrepare(1, 2)
    \/ RenderBlock
    \/ RenderHotBlock
    \/ PushCopy
    \/ PushFinish
    \/ TickCheck
    \/ PullPrepare
    \/ PullCopy
    \/ PullFinish
    \/ StoreDbLeft
    \/ StoreDbRight
    \/ StoreDbMono
    \/ Notify
    \/ UpdWait20Notified
    \/ UpdWait20TimedOut
    \/ UpdCheck
    \/ UpdLoadLeft
    \/ UpdLoadRight
    \/ UpdHeldValue
    \/ UpdAdd
    \/ UpdLoadMono
    \/ UpdGonio
    \/ UpdCorr
    \/ UpdWait

SpecSan == Init /\ [][NextSan]_vars

\* The render thread and the timer tick, the host preparing again at any
\* time it is not rendering, with any block size and channel count.
NextPrep ==
    \/ \E f \in Frames, c \in Chans : PrepareToPlay(f, c)
    \/ RenderBlock
    \/ PushCopy
    \/ PushFinish
    \/ TickCheck
    \/ PullPrepare
    \/ PullCopy
    \/ PullFinish
    \/ StoreDbLeft
    \/ StoreDbRight
    \/ StoreDbMono
    \/ Notify

SpecPrep == Init /\ [][NextPrep]_vars

\* The three threads with updateHeldValue and the holder's timerCallback
\* taken load by load, and the clock running.
NextHeld ==
    \/ FirstPrepare(1, 2)
    \/ RenderBlock
    \/ PushCopy
    \/ PushFinish
    \/ TickCheck
    \/ PullPrepare
    \/ PullCopy
    \/ PullFinish
    \/ StoreDbLeft
    \/ StoreDbRight
    \/ StoreDbMono
    \/ Notify
    \/ UpdWait20Notified
    \/ UpdWait20TimedOut
    \/ UpdCheck
    \/ UpdLoadLeft
    \/ UpdLoadRight
    \/ HeldCompare
    \/ HeldStore
    \/ UpdAdd
    \/ UpdLoadMono
    \/ UpdGonio
    \/ UpdCorr
    \/ UpdWait
    \/ DvhTimerEnterCounted
    \/ DvhTimerLoad
    \/ DvhTimerStore
    \/ TimeAdvance

SpecHeld == Init /\ [][NextHeld]_vars

\* The three threads with Averager::add taken load by load and the
\* averagerIntervals property changing.
NextAdd ==
    \/ FirstPrepare(1, 2)
    \/ RenderBlock
    \/ PushCopy
    \/ PushFinish
    \/ TickCheck
    \/ PullPrepare
    \/ PullCopy
    \/ PullFinish
    \/ StoreDbLeft
    \/ StoreDbRight
    \/ StoreDbMono
    \/ Notify
    \/ UpdWait20Notified
    \/ UpdWait20TimedOut
    \/ UpdCheck
    \/ UpdLoadLeft
    \/ UpdLoadRight
    \/ UpdHeldValue
    \/ AddLoad
    \/ AddUse
    \/ UpdLoadMono
    \/ UpdGonio
    \/ UpdCorr
    \/ UpdWait
    \/ \E n \in 1 .. MaxWindow : IntervalsEnter(n)
    \/ IntervalsRun

SpecAdd == Init /\ [][NextAdd]_vars

\* The Hold Time menu and the reset button, with levels arriving at the
\* peak Meter's holder.
NextMenu ==
    \/ \E item \in HoldItems : SelectHoldTime(item)
    \/ \E x \in Levels : UpdateHeldValue(x)
    \/ ResetHeldValue

SpecMenu == InitSmall /\ [][NextMenu]_vars

\* The three threads and the editor's destruction, under the scheduling the
\* platform gives them: the update thread runs on when it can (a running
\* fn() returns), and stopThread, once entered, goes on to its notify().
NextStop ==
    \/ FirstPrepare(1, 2)
    \/ RenderBlock
    \/ PushCopy
    \/ PushFinish
    \/ TickCheck
    \/ PullPrepare
    \/ PullCopy
    \/ PullFinish
    \/ StoreDbLeft
    \/ StoreDbRight
    \/ StoreDbMono
    \/ Notify
    \/ UpdWait20Notified
    \/ UpdWait20TimedOut
    \/ UpdCheck
    \/ UpdFn
    \/ UpdWait
    \/ StopThread
    \/ StopNotify

SpecStop ==
    /\ Init
    /\ [][NextStop]_vars
    /\ WF_vars(UpdateStep)
    /\ WF_vars(StopNotify)

\* ------------------------------------------------- claims
\* What each thread is in the middle of.
InPush == ppc \in {"p_copy", "p_fin"}
InPull == cpc \in {"c_copy", "c_fin"}
AfterDrain == cpc \in {"t_dbL", "t_dbR", "t_dbM", "t_notify"}

\* C1 as stated: from an empty, prepared Fifo with no pull in between, the
\* first Size pushes return true and the next one false; after one
\* successful pull the next push returns true.
C1_FirstSizePushesSucceed ==
    /\ \A i \in 1 .. Len(c1.res) :
          /\ (i <= Size => c1.res[i])
          /\ (i > Size => ~c1.res[i])
    /\ c1.after # "false"

\* C1 amended: from an empty, prepared Fifo with no pull in between, the
\* first Size - 1 pushes return true and every later one returns false
\* (the AbstractFifo keeps one index unused); after one successful pull
\* the next push returns true.
C1_FirstSizeMinusOnePushesSucceed ==
    /\ \A i \in 1 .. Len(c1.res) :
          /\ (i <= Size - 1 => c1.res[i])
          /\ (i > Size - 1 => ~c1.res[i])
    /\ c1.after # "false"

\* C1 witness: Size - 1 pushes were accepted, the next was refused, one
\* pull succeeded and the push after it was accepted.
C1_Witness ==
    /\ c1.phase = "done"
    /\ c1.after = "true"
    /\ Len(c1.res) >= Size
    /\ ~c1.res[Size]

\* C2: every successful pull delivers the oldest block that a push had
\* accepted and no pull had delivered yet, so the pulled blocks are a prefix
\* of the accepted ones: same order, none twice, none skipped (as long as
\* no prepare() cleared the block meanwhile).
C2_PullsDeliverInPushOrder ==
    (cpc = "c_fin" /\ cBS > 0) =>
        /\ lastPop # NoEntry
        /\ (~lastPop.prep => editorAudioBuffer = lastPop.blk)

\* C2 witness: a pull delivers a block from a slot past the first while the
\* producer is copying a newer one and further blocks are still queued.
C2_Witness ==
    /\ cpc = "c_fin" /\ cBS > 0 /\ cStart > 0
    /\ editorAudioBuffer = lastPop.blk
    /\ ppc = "p_copy"
    /\ Len(ghost) >= 2

\* C3: the producer never copies into the slot the consumer is copying out
\* of; a slot being read is a published, unread one (the oldest), and a slot
\* being written is the one at validEnd, which no reader may touch yet.
C3_NoSlotSharedByPushAndPull ==
    /\ ~(ppc = "p_copy" /\ cpc = "c_copy" /\ pStart = cStart)
    /\ (cpc = "c_copy" =>
            cStart = validStart /\ NumReady(validStart, validEnd) > 0)
    /\ (ppc = "p_copy" =>
            pStart = validEnd /\ NumReady(validStart, validEnd) < Size - 1)

\* C3 witness: both threads are copying at once, into and out of two slots.
C3_Witness == ppc = "p_copy" /\ cpc = "c_copy" /\ pStart # cStart

\* C4: push() and pull() are never blocked: wherever the other thread
\* stands (it may stay there forever), a push can begin, a push or pull that
\* began has a next step of its own, and it returns within three own steps.
C4_PushAndPullNeverWait ==
    /\ (ppc = "idle" /\ prepShape # << >> => ENABLED PushPrepare)
    /\ (ppc # "idle" => ENABLED (PushCopy \/ PushFinish))
    /\ (cpc = "t_loop" => ENABLED PullPrepare)
    /\ (InPull => ENABLED (PullCopy \/ PullFinish))
    /\ pSteps <= 2
    /\ cSteps <= 2

\* C4 witness: a push that found the Fifo full is about to return while the
\* consumer stands in the middle of a pull.
C4_Witness == ppc = "p_fin" /\ pBS = 0 /\ cpc = "c_copy"

\* C5: a push that finds Size - 1 blocks unread fails, and no step of a
\* failing push changes a slot or an index; a pull that finds no block
\* unread fails, and no step of a failing pull changes the out-block, a
\* slot or an index.
C5_FailedPushAndPullChangeNothing ==
    [][ /\ (ppc = "idle" /\ ppc' # "idle" /\ Len(ghost) >= Size - 1
               => ppc' = "p_fin" /\ pBS' = 0)
        /\ ((ppc = "idle" /\ ppc' = "p_fin") \/ (ppc = "p_fin" /\ pBS = 0 /\ ppc' = "idle")
               => UNCHANGED << validStart, validEnd, buffers >>)
        /\ (cpc = "t_loop" /\ cpc' # "t_loop" /\ ghost = << >>
               => cpc' = "c_fin" /\ cBS' = 0)
        /\ ((cpc = "t_loop" /\ cpc' = "c_fin") \/ (cpc = "c_fin" /\ cBS = 0 /\ cpc' # "c_fin")
               => UNCHANGED << validStart, validEnd, buffers, editorAudioBuffer >>)
      ]_vars

\* C5 witness: a push that found the Fifo full and a pull that found it
\* empty are both about to return false.
C5_Witness == ppc = "p_fin" /\ pBS = 0 /\ cpc = "c_fin" /\ cBS = 0

\* C6: after prepare (frameCount, channelCount) every slot keeps the shape
\* channelCount x frameCount, whatever is pushed.
C6_SlotsKeepPreparedShape ==
    prepShape # << >> =>
        \A i \in Slots : buffers[i].ch = prepShape[1] /\ buffers[i].fr = prepShape[2]

\* C7: the size queries are lower bounds for the thread that asks: a pull
\* fails only after the consumer has pulled as many blocks as
\* getNumAvailableForReading() last told it, a push fails only after the
\* producer has pushed as many blocks as getAvailableSpace() last told it,
\* and the first pull of a tick that passed the check succeeds.
C7_SizeQueriesAreLowerBounds ==
    /\ (cpc = "c_fin" /\ cBS = 0 => cCredit = 0 /\ tickPulled >= 1)
    /\ (ppc = "p_fin" /\ pBS = 0 => pCredit = 0)

\* C7 witness: both threads are inside an operation their last query still
\* covers, the consumer with two or more blocks promised.
C7_Witness ==
    /\ cpc = "c_copy" /\ cCredit >= 2
    /\ ppc = "p_copy" /\ pCredit >= 1

\* C8: when the drain loop has ended (through a pull that returned false)
\* after pulling at least one block, editorAudioBuffer holds the block pulled
\* last, and the dB values the tick stores are computed from that block alone.
C8_LastPulledBlockIsKept ==
    (AfterDrain /\ tickPulled >= 1) =>
        /\ cFailed
        /\ (~lastPop.prep => editorAudioBuffer = lastPop.blk)
        /\ (cpc \in {"t_dbR", "t_dbM", "t_notify"} /\ ~lastPop.prep =>
                /\ magLeft \in GetMagnitude(lastPop.blk, 0)
                /\ dbLeftChannel = GainToDecibels(magLeft, NEGATIVE_INFINITY))
        /\ (cpc \in {"t_dbM", "t_notify"} /\ ~lastPop.prep =>
                /\ magRight \in GetMagnitude(lastPop.blk, 1)
                /\ dbRightChannel = GainToDecibels(magRight, NEGATIVE_INFINITY))
        /\ (cpc = "t_notify" =>
                dbPeakMono = GainToDecibels((magLeft + magRight) \div 2,
                                            NEGATIVE_INFINITY))

\* C8 witness: a tick that pulled two or more blocks has stored dB values
\* above the floor, taken from the last of them.
C8_Witness ==
    /\ cpc = "t_notify" /\ tickPulled = 2
    /\ editorAudioBuffer = lastPop.blk
    /\ dbLeftChannel > NEGATIVE_INFINITY
    /\ dbPeakMono > NEGATIVE_INFINITY

\* C9 as stated: every drain loop comes to its end, the producer pushing or
\* not.
C9_DrainLoopAlwaysEnds == (cpc = "t_loop") ~> AfterDrain

\* C9 amended: a drain loop that never ends is fed by pushes accepted again
\* and again (it ends once the producer pauses); a pull fails only when
\* every accepted block has been pulled; at most Size blocks are unread.
C9_DrainLoopEndsUnlessFed ==
    /\ []<>(cpc # "t_loop" /\ ~InPull) \/ []<><<PushFinish /\ pBS > 0>>_vars
    /\ [][cpc = "t_loop" /\ cpc' = "c_fin" => ghost = << >>]_vars
    /\ [](Len(ghost) <= Size)

\* C9 witness: a drain loop ends, on a failing pull, after pulling two or
\* more blocks while the producer is inside a push.
C9_Witness == cpc = "c_fin" /\ cBS = 0 /\ tickPulled = 2 /\ InPush

\* C10 as stated: every execution of update() is preceded by a tick that
\* pulled a block since update() last started (or since construction).
C10_UpdateOnlyAfterDrain == upc = "u_fn" => updDrained

\* C10 amended: every execution of update() but the thread's first was
\* woken by the notify() of a tick that had pulled at least one block, and
\* a tick that pulls nothing never calls notify().
C10_UpdateOnlyWhenWokenByDrain ==
    /\ (upc = "u_fn" /\ ~updFirst => updWoken)
    /\ (cpc = "t_notify" => tickPulled >= 1)

\* C10 witness: a later execution of update(), woken by a draining tick's
\* notify() although no block was pulled since update() last started.
C10_Witness == upc = "u_fn" /\ ~updFirst /\ updWoken /\ ~updDrained

\* ------------------------------------------------- the trackers
\* C11: for a window of N >= 1, after each add() the stored sum is the sum
\* of the N elements and getAvg() is sum / N; once N samples were added since
\* the last resize, getAvg() is the mean of the last N samples added.
C11_AvgIsMeanOfLastN ==
    (avgOp.op = "add" /\ ~avgFault /\ Len(elements) >= 1) =>
        /\ sum = SumSeq(elements)
        /\ avg = FDiv(sum, Len(elements))
        /\ Len(fed) >= Len(elements) =>
               avg = FDiv(SumSeq(LastN(fed, Len(elements))), Len(elements))

\* C12: after resize (n, v) with n >= 1, whatever the state before:
\* getSize() = n, every element is v, the write cursor is 0, sum = v * n
\* (the float product) and getAvg() = v.
C12_ResizeResets ==
    (avgOp.op = "resize" /\ avgOp.n >= 1) =>
        /\ Len(elements) = avgOp.n
        /\ \A i \in 1 .. Len(elements) : elements[i] = avgOp.v
        /\ writeIndex = 0
        /\ sum = FMul(avgOp.v, avgOp.n)
        /\ avg = avgOp.v
C12_Witness ==
    /\ avgOp.op = "resize"
    /\ avgOp.n >= 1
    /\ avgOp.size0 # avgOp.n
    /\ avgOp.w0 > 0
    /\ avgOp.v = 1

\* C13: a resize to length 0 is rejected or clamped to a length >= 1, so
\* that no add() indexes an empty element buffer or divides the sum by zero.
C13_ZeroLengthRejected == ~avgFault

\* C14: updateHeldValue (x) leaves heldValue = max (heldValue before, x), and
\* over updateHeldValue calls with no timer tick, reset or setHoldForInf
\* between them heldValue is the maximum of its start and the samples fed.
C14_UpdateNeverLowers ==
    /\ dvhOp.op = "update" => heldValue = Max(dvhOp.before, dvhOp.arg)
    /\ heldValue = heldMax
C14_Witness ==
    /\ dvhOp.op = "update"
    /\ dvhOp.arg < dvhOp.before
    /\ dvhOp.before < MAX_DECIBELS

\* C15: while holdForInf is true no timer tick changes heldValue, whatever
\* time has passed, and heldValue never decreases over timerCallback and
\* updateHeldValue calls (no resetHeldValue, no setHoldForInf (false)).
C15_ForeverHoldNeverDecays ==
    /\ []((dvhOp.op = "tick" /\ holdForInf) => heldValue = dvhOp.before)
    /\ [][(holdForInf /\ holdForInf' /\ dvhOp'.op # "reset")
             => heldValue' >= heldValue]_vars
C15_Witness ==
    /\ holdForInf
    /\ dvhOp.op = "tick"
    /\ dvhOp.arg > holdTimeMs
    /\ heldValue > NEGATIVE_INFINITY
    /\ decayRatePerFrame > 0

\* C16: with holdForInf false, hold duration 0 and a decay rate D > 0, once
\* no updateHeldValue call follows, the timer ticks bring heldValue to the
\* floor (-66 dB) exactly, where it stays; heldValue is never below the floor.
C16_DecayReachesFloor ==
    /\ \/ []<><<\E x \in Levels : UpdateHeldValue(x)>>_vars
       \/ <>[](heldValue = NEGATIVE_INFINITY)
    /\ [](heldValue >= NEGATIVE_INFINITY)
C16_Witness ==
    /\ heldValue = NEGATIVE_INFINITY
    /\ dvhOp.op = "tick"
    /\ dvhOp.before > NEGATIVE_INFINITY
    /\ dvhOp.before - decayRatePerFrame < NEGATIVE_INFINITY

\* C17: setHoldForInf (false) sets heldValue to the floor whatever it was;
\* setHoldForInf (true) leaves heldValue unchanged.
C17_DisablingForeverHoldClears ==
    /\ dvhOp.op = "infOff" => (heldValue = NEGATIVE_INFINITY /\ ~holdForInf)
    /\ dvhOp.op = "infOn" => (heldValue = dvhOp.before /\ holdForInf)
C17_Witness ==
    /\ dvhOp.op = "infOff"
    /\ dvhOp.before > NEGATIVE_INFINITY

\* C18: tracker state is touched by one thread only: the update thread is
\* never inside DecayingValueHolder::updateHeldValue while the message thread
\* is inside the same holder's timerCallback, and never inside Averager::add
\* while the message thread is inside the same averager's resize.
C18_TrackersOwnedByOneThread ==
    /\ ~(upc = "u_held" /\ cpc = "d_tick")
    /\ ~(upc = "u_add" /\ cpc = "a_resize")

\* C19: editorAudioBuffer is never read by the update thread
\* (Goniometer::update, CorrelationMeter::update) while the timer callback's
\* pull() is overwriting it on the message thread.
C19_EditorBufferNotReadDuringPull ==
    ~(upc \in {"u_gonio", "u_corr"} /\ cpc = "c_copy")

\* C20: once stopThread has set the exit flag, the update thread starts no
\* fn() after it has observed the flag, it leaves run() eventually and for
\* good, and it does not stay blocked in wait (-1), also when the request
\* arrives while fn() is executing.
C20_UpdateThreadStops ==
    /\ shouldExit ~> (upc = "u_done")
    /\ [][(upc = "u_check" /\ shouldExit) => upc' # "u_fn"]_vars
    /\ [][upc = "u_done" => upc' = "u_done"]_vars
C20_Witness ==
    /\ upc = "u_done"
    /\ stopAt = "u_fn"

\* ---------------------------------------------------------------------------
\* From the drained block to the trackers
\* ---------------------------------------------------------------------------

\* C21: no value that is not finite reaches the level trackers: the values
\* MacroMeter::updateLevel passes to DecayingValueHolder::updateHeldValue
\* and to Averager::add are finite, and so are the held value, the running
\* sum and the average, also when a drained block holds an infinite sample.
C21_NonFiniteNeverReachesTrackers ==
    /\ upc \in {"u_held", "u_add"} => IsFinite(uLeft)
    /\ IsFinite(heldValue)
    /\ IsFinite(sum)
    /\ IsFinite(avg)

\* ---------------------------------------------------------------------------
\* The DecayingValueHolder's tick and update, in detail
\* ---------------------------------------------------------------------------

\* C22, as stated: a timer tick with holdForInf false changes heldValue if
\* and only if now - peakTime > holdTimeMs.
C22_TickChangesIffPastHold ==
    [][(DvhTimerCallback /\ ~holdForInf)
          => ((heldValue' # heldValue) <=> (sincePeak > holdTimeMs))]_vars

\* C22, amended: a timer tick with holdForInf false changes heldValue only
\* if now - peakTime > holdTimeMs (strictly); past the hold window the new
\* heldValue is clamp (old heldValue - decayRatePerFrame, floor, ceiling),
\* which is the old value when that is already the floor; a tick inside the
\* hold window leaves heldValue unchanged, and no tick changes peakTime or
\* the per-tick step.
C22_TickDecaysOnlyPastHold ==
    [][(DvhTimerCallback /\ ~holdForInf)
          => /\ (heldValue' # heldValue) => (sincePeak > holdTimeMs)
             /\ (sincePeak > holdTimeMs)
                   => heldValue' = JLimit(NEGATIVE_INFINITY, MAX_DECIBELS,
                                          heldValue - decayRatePerFrame)
             /\ (sincePeak <= holdTimeMs) => heldValue' = heldValue
             /\ (heldValue' = heldValue)
                   => (sincePeak <= holdTimeMs \/ heldValue = NEGATIVE_INFINITY)
             /\ sincePeak' = sincePeak
             /\ decayRatePerFrame' = decayRatePerFrame]_vars
\* A tick after a hold time of 500 ms has lowered the value by the step.
C22_Witness ==
    /\ dvhOp.op = "tick"
    /\ ~holdForInf
    /\ holdTimeMs = 500
    /\ dvhOp.arg > holdTimeMs
    /\ heldValue = dvhOp.before - decayRatePerFrame
    /\ heldValue > NEGATIVE_INFINITY

\* C23, as stated: updateHeldValue (x) with x >= heldValue sets heldValue to
\* x and restarts the hold window, with x < heldValue it changes neither.
C23_EqualSampleRearms ==
    [][\A x \in Levels :
          UpdateHeldValue(x)
             => IF x >= heldValue
                THEN heldValue' = x /\ sincePeak' = 0
                ELSE heldValue' = heldValue /\ sincePeak' = sincePeak]_vars

\* C23, amended: updateHeldValue (x) with x > heldValue sets heldValue to x
\* and the peak timestamp to now, restarting the hold window; with
\* x <= heldValue it changes neither, so a sample equal to the held peak
\* does not re-arm the hold.
C23_OnlyHigherSampleRearms ==
    [][\A x \in Levels :
          UpdateHeldValue(x)
             => IF x > heldValue
                THEN heldValue' = x /\ sincePeak' = 0
                ELSE heldValue' = heldValue /\ sincePeak' = sincePeak]_vars
\* A sample equal to the held peak arrived after the hold window had
\* passed, and the window is still passed.
C23_Witness ==
    /\ dvhOp.op = "update"
    /\ dvhOp.arg = dvhOp.before
    /\ dvhOp.arg > NEGATIVE_INFINITY
    /\ heldValue = dvhOp.arg
    /\ dvhOp.since > holdTimeMs
    /\ sincePeak = dvhOp.since

\* C27: heldValue lies within [NEGATIVE_INFINITY, MAX_DECIBELS] = [-66 dB,
\* +12 dB] in every reachable state, whatever updateHeldValue is given
\* (inputs above +12 dB included) and whatever ticks, resets and
\* configuration changes occur.
C27_HeldValueWithinRange ==
    /\ heldValue >= NEGATIVE_INFINITY
    /\ heldValue <= MAX_DECIBELS

\* ---------------------------------------------------------------------------
\* The Hold Time menu
\* ---------------------------------------------------------------------------

\* C28: after any sequence of Hold Time selections, whenever the tree has
\* peakHoldEnabled true and peakHoldInf false, the text meter's
\* ValueHolder::durationToHoldForMs equals the tree's peakHoldDuration.
C28_TextHoldDurationFollowsTree ==
    (peakHoldEnabled /\ ~peakHoldInf) => durationToHoldForMs = peakHoldDuration

\* ---------------------------------------------------------------------------
\* The tick's wake-up
\* ---------------------------------------------------------------------------

\* C24: no wake-up is lost: while the editor lives, every notify() of a
\* tick that drained a block is followed by the update thread being at the
\* top of its loop, and from there by an execution of update(), which thus
\* begins after the tick stored its dB values; also when notify() arrives
\* while update() is running or before the thread has reached wait (-1).
C24_NoWakeUpLost ==
    /\ (evtDrained /\ ~shouldExit) ~> (upc = "u_check" \/ shouldExit)
    /\ (upc = "u_check" /\ ~shouldExit) ~> (upc = "u_fn" \/ shouldExit)
\* A draining tick's notify() is pending while update() is running, not
\* for the first time.
C24_Witness ==
    /\ upc = "u_fn"
    /\ ~updFirst
    /\ event
    /\ evtDrained
    /\ ~shouldExit

\* ---------------------------------------------------------------------------
\* What update() loads
\* ---------------------------------------------------------------------------

\* The three values one tick stores, for the peak magnitudes l and r.
TickTriple(l, r) ==
    << GainToDecibels(l, NEGATIVE_INFINITY), GainToDecibels(r, NEGATIVE_INFINITY),
       GainToDecibels(MonoGain(l, r), NEGATIVE_INFINITY) >>

\* C29: each execution of update() passes on a consistent snapshot: the
\* values it has loaded from dbLeftChannel, dbRightChannel and dbPeakMono
\* are those one timer tick stored (or the three initial values).
C29_SnapshotFromOneTick ==
    upc \in {"u_gonio", "u_corr"}
       => \E l \in Mags, r \in Mags : << uLeft, uRight, uMono >> = TickTriple(l, r)

\* ---------------------------------------------------------------------------
\* The trackers between two threads
\* ---------------------------------------------------------------------------

\* C25: updateHeldValue (update thread) and a decay step of timerCallback
\* (message thread) leave heldValue as one of their two serial orders
\* would: the decay step stores a value computed from the heldValue that is
\* current when it stores, so that it never overwrites a peak stored after
\* its load with (old heldValue - decayRatePerFrame).
C25_DecayNeverOverwritesNewPeak ==
    [][(cpc = "d_store" /\ cpc' = "idle") => heldValue = dHeld]_vars

\* C26: the index Averager::add uses to access elements is smaller than
\* elements.size() in every reachable state, also when the averager's
\* length is changed on the message thread while the update thread is
\* inside add() (the lengths set are never 0 here).
C26_AddIndexWithinElements ==
    upc = "u_addW" => writeIndexTemp < Len(elements)

\* ---------------------------------------------------------------------------
\* Preparing again
\* ---------------------------------------------------------------------------

\* C30: prepare() leaves the Fifo's indices unchanged, so that
\* getNumAvailableForReading() and getAvailableSpace() return the same
\* before and after it; a block queued before a prepare() is delivered by a
\* pull that starts after it, in its turn, cleared to silence in the
\* prepared shape.
C30_PrepareKeepsQueue ==
    /\ [][(\E f \in Frames, c \in Chans : PrepareToPlay(f, c))
             => /\ validStart' = validStart
                /\ validEnd' = validEnd
                /\ NumReady(validStart', validEnd') = NumReady(validStart, validEnd)
                /\ FreeSpace(validStart', validEnd') = FreeSpace(validStart, validEnd)
                /\ Len(ghost') = Len(ghost)]_vars
    /\ [][(cpc = "c_copy" /\ cpc' = "c_fin" /\ cRace = NoBlock
              /\ ghost # << >> /\ Head(ghost).prep)
             => /\ editorAudioBuffer' = Cleared(prepShape[1], prepShape[2])
                /\ lastPop' = Head(ghost)
                /\ buffers[cStart] = Head(ghost).blk]_vars
\* A block queued before a prepare() has just been pulled, silent, and
\* another one is still queued behind it.
C30_Witness ==
    /\ cpc = "c_fin"
    /\ lastPop.prep
    /\ editorAudioBuffer = lastPop.blk
    /\ editorAudioBuffer.data = 0
    /\ ghost # << >>
    /\ Head(ghost).prep

====
